---- MODULE Spec2Model ----
(***************************************************************************)
(* imgv: a PPM (P3) image viewer.  src/main.c holds the decoder            *)
(* (ppm_read_file), the image resource (struct PPMFile, ppm_destroy), the  *)
(* presenter (sdl_render_once) and the viewer state machine (update_state  *)
(* and the event loop of main).                                            *)
(*                                                                         *)
(* A file is a sequence of one-character strings; the decoder scans it     *)
(* with the conversions of fscanf that the source uses (%2s, %i, %hhu).    *)
(* Every handler is one action; the operations a handler performs are      *)
(* recorded, in program order, in the history variable log.                *)
(***************************************************************************)
EXTENDS Integers, Sequences, FiniteSets, TLC

(***************************************************************************)
(* Bounds of the model.                                                    *)
(***************************************************************************)
\* events the environment posts in one run
MaxEvents == 2
\* events that may wait in the SDL queue at once
MaxQueue == 2
\* largest ordinary width / height an input file declares
MaxDim == 2

(***************************************************************************)
(* Machine integers: C int is 32 bits wide.                                *)
(***************************************************************************)
INT_MAX == 2147483647
INT_MIN == -INT_MAX - 1

\* x + y reduced to the 32-bit two's complement range, computed without
\* leaving that range.
AddWrap(x, y) ==
    IF x >= 0 /\ y >= 0 /\ x > INT_MAX - y
        THEN ((x - INT_MAX) - 1) + ((y - INT_MAX) - 1)
    ELSE IF x < 0 /\ y < 0 /\ x < INT_MIN - y
        THEN ((x + INT_MAX) + 1) + ((y + INT_MAX) + 1)
    ELSE x + y

AddOverflows(x, y) ==
    \/ x >= 0 /\ y >= 0 /\ x > INT_MAX - y
    \/ x < 0 /\ y < 0 /\ x < INT_MIN - y

\* one step of multiplying by doubling: h is a * (b \div 2)
MulStep(h, a, odd) ==
    IF odd THEN AddWrap(AddWrap(h, h), a) ELSE AddWrap(h, h)

\* a * b reduced to the 32-bit range (what imul leaves in the register);
\* b \div 2 rounds down, so a negative b ends at -1.
RECURSIVE MulWrap(_, _)
MulWrap(a, b) ==
    IF b = 0 THEN 0
    ELSE IF b = -1 THEN (IF a = INT_MIN THEN INT_MIN ELSE -a)
    ELSE MulStep(MulWrap(a, b \div 2), a, b % 2 = 1)

Abs(x) == IF x < 0 THEN -x ELSE x

\* whether the mathematical product a * b leaves the range of int
\* (signed overflow: undefined behaviour in C)
MulOverflows(a, b) ==
    IF a = 0 \/ b = 0 THEN FALSE
    ELSE IF a = INT_MIN \/ b = INT_MIN THEN ~(a = 1 \/ b = 1)
    ELSE LET q == INT_MAX \div Abs(b)
         IN  IF (a > 0) = (b > 0)
                 THEN Abs(a) > q
                 ELSE Abs(a) > q /\ ~(Abs(a) = q + 1 /\ (INT_MAX % Abs(b)) = Abs(b) - 1)

(***************************************************************************)
(* Input files.  NoFile is what a path fopen cannot open designates; any   *)
(* other file has a text, a sequence of one-character strings.             *)
(***************************************************************************)
NoFile == [open |-> FALSE, text |-> <<>>]
TextFile(chars) == [open |-> TRUE, text |-> chars]
\* end-of-file return of fscanf
EOF == -1
\* the terminating null character of a C string
NUL == "NUL"
\* a byte of a malloc'ed block that has not been written
Uninit == -1

IsSpace(c) == c \in {" ", "\n", "\t"}

DecChars == <<"0", "1", "2", "3", "4", "5", "6", "7", "8", "9">>
HexChars == DecChars \o <<"a", "b", "c", "d", "e", "f">>
HexUpper == <<"A", "B", "C", "D", "E", "F">>

\* the value of c as a digit, or -1 when c is no digit in any base
DigitValue(c) ==
    IF \E i \in 1..16 : HexChars[i] = c
        THEN (CHOOSE i \in 1..16 : HexChars[i] = c) - 1
    ELSE IF \E i \in 1..6 : HexUpper[i] = c
        THEN (CHOOSE i \in 1..6 : HexUpper[i] = c) + 9
    ELSE -1

IsDigit(c, base) == DigitValue(c) >= 0 /\ DigitValue(c) < base

\* the first position at or after p that holds no white space
RECURSIVE SkipSpace(_, _)
SkipSpace(s, p) ==
    IF p <= Len(s) /\ IsSpace(s[p]) THEN SkipSpace(s, p + 1) ELSE p

\* the digits of base `base` from position p on: their value and the
\* position after them
RECURSIVE ScanDigits(_, _, _, _)
ScanDigits(s, p, base, acc) ==
    IF p <= Len(s) /\ IsDigit(s[p], base)
        THEN ScanDigits(s, p + 1, base, acc * base + DigitValue(s[p]))
        ELSE [val |-> acc, pos |-> p]

HasSign(s, p) == p <= Len(s) /\ s[p] \in {"+", "-"}

\* fscanf "%2s" once white space is skipped: at most two characters that
\* are not white space.  ret is 1, or EOF when the input ends first.
ScanStr2At(s, q) ==
    IF q > Len(s) THEN [ret |-> EOF, str |-> <<>>, pos |-> q]
    ELSE IF q + 1 <= Len(s) /\ ~IsSpace(s[q + 1])
        THEN [ret |-> 1, str |-> SubSeq(s, q, q + 1), pos |-> q + 2]
    ELSE [ret |-> 1, str |-> SubSeq(s, q, q), pos |-> q + 1]

\* fscanf "%2s"
ScanStr2(s, p) == ScanStr2At(s, SkipSpace(s, p))

\* the position after an optional sign at q
AfterSign(s, q) == IF HasSign(s, q) THEN q + 1 ELSE q

\* %i takes the base from the prefix of the number: 0x is 16, 0 is 8
IsHex(s, d) ==
    /\ d + 2 <= Len(s)
    /\ s[d] = "0"
    /\ s[d + 1] \in {"x", "X"}
    /\ IsDigit(s[d + 2], 16)

BaseAt(s, d) ==
    IF IsHex(s, d) THEN 16
    ELSE IF d <= Len(s) /\ s[d] = "0" THEN 8
    ELSE 10

DigitsFrom(s, d) == IF IsHex(s, d) THEN d + 2 ELSE d

\* the conversion of the digits r found from position `from` on, for a
\* number whose text starts at q: no digit is a matching failure (ret 0,
\* nothing consumed)
Converted(s, q, from, r) ==
    IF r.pos = from THEN [ret |-> 0, val |-> 0, pos |-> q]
    ELSE [ret |-> 1,
          val |-> IF s[q] = "-" THEN -r.val ELSE r.val,
          pos |-> r.pos]

\* fscanf "%i" once white space is skipped.  ret is 1 on a conversion, 0
\* when no digit is there, EOF when the input ends first.
ScanIntAt(s, q) ==
    IF q > Len(s) THEN [ret |-> EOF, val |-> 0, pos |-> q]
    ELSE Converted(s, q, DigitsFrom(s, AfterSign(s, q)),
                   ScanDigits(s, DigitsFrom(s, AfterSign(s, q)),
                              BaseAt(s, AfterSign(s, q)), 0))

\* fscanf "%i"
ScanInt(s, p) == ScanIntAt(s, SkipSpace(s, p))

\* a value stored into an unsigned char: modulo 256
ToByte(n) == n % 256

ByteOf(r) == [ret |-> r.ret, val |-> ToByte(r.val), pos |-> r.pos]

\* fscanf "%hhu" once white space is skipped: an optional sign, decimal
\* digits, the value stored into an unsigned char
ScanU8At(s, q) ==
    IF q > Len(s) THEN [ret |-> EOF, val |-> 0, pos |-> q]
    ELSE ByteOf(Converted(s, q, AfterSign(s, q),
                          ScanDigits(s, AfterSign(s, q), 10, 0)))

\* fscanf "%hhu"
ScanU8(s, p) == ScanU8At(s, SkipSpace(s, p))

\* fscanf "%i %i": the number of conversions made before the first one
\* that fails (EOF when the input ends before the first)
Dims2(a, b) ==
    IF b.ret # 1 THEN [ret |-> 1, width |-> a.val, height |-> 0, pos |-> b.pos]
    ELSE [ret |-> 2, width |-> a.val, height |-> b.val, pos |-> b.pos]

Dims1(s, a) ==
    IF a.ret # 1 THEN [ret |-> a.ret, width |-> 0, height |-> 0, pos |-> a.pos]
    ELSE Dims2(a, ScanInt(s, a.pos))

ScanDims(s, p) == Dims1(s, ScanInt(s, p))

\* fscanf "%hhu %hhu %hhu"; r, g and b start as 0 and keep it where no
\* conversion stored into them
Triplet3(x, y, z) ==
    IF z.ret # 1 THEN [ret |-> 2, r |-> x.val, g |-> y.val, b |-> 0, pos |-> z.pos]
    ELSE [ret |-> 3, r |-> x.val, g |-> y.val, b |-> z.val, pos |-> z.pos]

Triplet2(s, x, y) ==
    IF y.ret # 1 THEN [ret |-> 1, r |-> x.val, g |-> 0, b |-> 0, pos |-> y.pos]
    ELSE Triplet3(x, y, ScanU8(s, y.pos))

Triplet1(s, x) ==
    IF x.ret # 1 THEN [ret |-> x.ret, r |-> 0, g |-> 0, b |-> 0, pos |-> x.pos]
    ELSE Triplet2(s, x, ScanU8(s, x.pos))

ScanTriplet(s, p) == Triplet1(s, ScanU8(s, p))

(***************************************************************************)
(* The decoder, ppm_read_file.                                             *)
(*                                                                         *)
(* env is what the run-time environment decides during one call:           *)
(*   nomem   the malloc that returns NULL: "data" (the pixel array; for a  *)
(*           size of 0 the C library may return either NULL or a block),   *)
(*           "struct" (the struct PPMFile) or "none",                      *)
(*   ub      what undefined behaviour (signed overflow of width * height   *)
(*           or num_pixels * 4, a store past the end of the block) does in *)
(*           this build: "wrap" (two's complement arithmetic, the store    *)
(*           lands outside the block) or "trap" (the process is killed).   *)
(*                                                                         *)
(* The result names the return taken (kind), the struct PPMFile returned   *)
(* (img: empty for NULL), the arguments of the fprintf(stderr, ...) made   *)
(* (diag), whether the FILE is still open at the return (fileOpen) and     *)
(* whether a pixel array is still allocated that no returned struct owns   *)
(* (dataLeft), and whether a store landed outside the pixel array          *)
(* (corrupt).                                                              *)
(***************************************************************************)
Envs == [nomem : {"none", "data", "struct"}, ub : {"wrap", "trap"}]

Failure(kind, diag, fileOpen, dataLeft, corrupt) ==
    [kind |-> kind, img |-> <<>>, diag |-> diag,
     fileOpen |-> fileOpen, dataLeft |-> dataLeft, corrupt |-> corrupt]

\* char magic_number[3] after fscanf "%2s" stored str into it: the string
\* and its terminator; what follows the terminator was never written
MagicBuffer(str) ==
    [k \in 1..3 |-> IF k <= Len(str) THEN str[k]
                    ELSE IF k = Len(str) + 1 THEN NUL
                    ELSE "?"]

\* a variant that looks at the first character only
MagicRejectedFirstChar(m) ==
    \/ m.ret # 1
    \/ MagicBuffer(m.str)[1] # "P"

\* the condition of the if at lines 25-28 (|| evaluates left to right and
\* stops at the first true operand)
MagicRejected(m) ==
    \/ m.ret # 1
    \/ MagicBuffer(m.str)[1] # "P"
    \/ MagicBuffer(m.str)[2] # "3"

\* malloc(n) of the pixel array: n is converted to size_t, so a negative n
\* asks for more than the address space holds and fails
MallocData(n, env) ==
    IF n >= 0 /\ env.nomem # "data" THEN <<[k \in 1..n |-> Uninit]>> ELSE <<>>

\* a variant that stores red first and alpha last
StorePixelRGBA(data, i, r, g, b) ==
    [data EXCEPT ![i * 4 + 1] = r,
                 ![i * 4 + 2] = g,
                 ![i * 4 + 3] = b,
                 ![i * 4 + 4] = 255]

\* lines 70-73: the four bytes of pixel i (C offsets 4i..4i+3 are the
\* positions 4i+1..4i+4 here)
StorePixel(data, i, r, g, b) ==
    [data EXCEPT ![i * 4 + 1] = 255,
                 ![i * 4 + 2] = b,
                 ![i * 4 + 3] = g,
                 ![i * 4 + 4] = r]

\* the for loop of lines 57-74, from pixel i on: ReadPixels is the loop
\* test and the fscanf, PixelRead what follows the fscanf that returned t.
\* A store past the end of the block is undefined behaviour.
RECURSIVE ReadPixels(_, _, _, _, _, _, _)
RECURSIVE PixelRead(_, _, _, _, _, _, _)
ReadPixels(s, p, i, num_pixels, data, env, corrupt) ==
    IF ~(i < num_pixels)
        THEN [end |-> "done", data |-> data, i |-> i, corrupt |-> corrupt]
        ELSE PixelRead(s, ScanTriplet(s, p), i, num_pixels, data, env, corrupt)

PixelRead(s, t, i, num_pixels, data, env, corrupt) ==
    IF t.ret # 3
        THEN [end |-> "short", data |-> data, i |-> i, corrupt |-> corrupt]
    ELSE IF i * 4 + 4 > Len(data)
        THEN IF env.ub = "trap"
                 THEN [end |-> "trap", data |-> data, i |-> i, corrupt |-> TRUE]
                 ELSE ReadPixels(s, t.pos, i + 1, num_pixels, data, env, TRUE)
    ELSE ReadPixels(s, t.pos, i + 1, num_pixels,
                    StorePixel(data, i, t.r, t.g, t.b), env, corrupt)

\* lines 76-89, once every pixel is read
MakeImage(path, m, d, c, px, env) ==
    IF env.nomem = "struct"
        THEN Failure("AllocationError",
                     <<"Failed to allocate PPMFile struct.\n">>,
                     TRUE, TRUE, px.corrupt)
        ELSE [kind |-> "Ok",
              img |-> <<[path |-> path,
                         magic_number |-> MagicBuffer(m.str),
                         width |-> d.width,
                         height |-> d.height,
                         max_color |-> c.val,
                         data |-> px.data]>>,
              diag |-> <<>>,
              fileOpen |-> TRUE,
              dataLeft |-> FALSE,
              corrupt |-> px.corrupt]

\* lines 62-65 and 76: how the pixel loop ended
PixelsRead(path, m, d, c, px, env) ==
    IF px.end = "trap"
        THEN Failure("Trap", <<>>, TRUE, TRUE, TRUE)
    ELSE IF px.end = "short"
        THEN Failure("PixelDataError",
                     <<"Error reading pixel data.\n">>, TRUE, TRUE, px.corrupt)
    ELSE MakeImage(path, m, d, c, px, env)

\* lines 52-57: block is what malloc returned
Allocated(path, s, m, d, c, num_pixels, block, env) ==
    IF block = <<>>
        THEN Failure("AllocationError",
                     <<"Failed to allocate image pixel data array.\n">>,
                     TRUE, FALSE, FALSE)
        ELSE PixelsRead(path, m, d, c,
                        ReadPixels(s, c.pos, 0, num_pixels, block[1], env, FALSE),
                        env)

\* lines 47-50: int num_pixels = width * height; malloc(num_pixels * 4).
\* Signed overflow of either product is undefined behaviour.
SizeComputed(path, s, m, d, c, num_pixels, env) ==
    IF /\ MulOverflows(d.width, d.height) \/ MulOverflows(num_pixels, 4)
       /\ env.ub = "trap"
        THEN Failure("Trap", <<>>, TRUE, FALSE, FALSE)
        ELSE Allocated(path, s, m, d, c, num_pixels,
                       MallocData(MulWrap(num_pixels, 4), env), env)

\* lines 40-47: c is what fscanf "%i" returned for max_color
MaxRead(path, s, m, d, c, env) ==
    IF c.ret # 1
        THEN Failure("MaxColorError",
                     <<"Error reading max color.\n">>, TRUE, FALSE, FALSE)
        ELSE SizeComputed(path, s, m, d, c, MulWrap(d.width, d.height), env)

\* lines 33-42: d is what fscanf "%i %i" returned for width and height
DimsRead(path, s, m, d, env) ==
    IF d.ret # 2
        THEN Failure("DimensionError",
                     <<"Error reading image dimensions.\n">>, TRUE, FALSE, FALSE)
        ELSE MaxRead(path, s, m, d, ScanInt(s, d.pos), env)

\* lines 22-35: m is what fscanf "%2s" returned for magic_number
MagicRead(path, s, m, env) ==
    IF MagicRejected(m)
        THEN Failure("FormatError",
                     <<"File is not in PPM P3 format.\n">>, TRUE, FALSE, FALSE)
        ELSE DimsRead(path, s, m, ScanDims(s, m.pos), env)

\* struct PPMFile* ppm_read_file(const char* path), lines 14-90
ppm_read_file(path, file, env) ==
    IF ~file.open
        THEN Failure("OpenError", <<"Failed to open file %s.\n", path>>,
                     FALSE, FALSE, FALSE)
        ELSE MagicRead(path, file.text, ScanStr2(file.text, 1), env)

(***************************************************************************)
(* The files the decoder is run on.  A file is described by what its       *)
(* author meant to write (tag, width, height, maximum, the r g b triplets  *)
(* pix) and by a defect: only the first `keep` tokens are there, and       *)
(* token `junk` (0: none) is replaced by a word that is no number.  The    *)
(* text is the tokens written in decimal, laid out as in a PPM file.       *)
(***************************************************************************)
RECURSIVE NatToChars(_)
NatToChars(n) ==
    IF n < 10 THEN <<DecChars[n + 1]>>
    ELSE NatToChars(n \div 10) \o <<DecChars[(n % 10) + 1]>>

IntToChars(n) == IF n < 0 THEN <<"-">> \o NatToChars(-n) ELSE NatToChars(n)

AllTokens(d) ==
    <<d.tag, IntToChars(d.width), IntToChars(d.height), IntToChars(d.max)>>
    \o [k \in 1..(3 * Len(d.pix)) |->
            NatToChars(d.pix[((k - 1) \div 3) + 1][((k - 1) % 3) + 1])]

\* the first n tokens, token d.junk replaced
Defective(d, all, n) == [k \in 1..n |-> IF k = d.junk THEN <<"x">> ELSE all[k]]

Shorter(a, b) == IF a < b THEN a ELSE b

Tokens(d) == Defective(d, AllTokens(d), Shorter(d.keep, 4 + 3 * Len(d.pix)))

\* the separator after token k: the header lines end with a line feed
Separator(k) == IF k \in {1, 3, 4} THEN <<"\n">> ELSE <<" ">>

RECURSIVE Layout(_, _)
Layout(toks, k) ==
    IF k > Len(toks) THEN <<>>
    ELSE toks[k] \o Separator(k) \o Layout(toks, k + 1)

FileOf(d) == IF d.open THEN TextFile(Layout(Tokens(d), 1)) ELSE NoFile

(***************************************************************************)
(* The viewer: the state of main and of the SDL objects it holds.          *)
(***************************************************************************)
VARIABLES
    pc,          \* where main is: "start", "loop", "exited", "killed"
    exit_status, \* the status the process exited with, NoStatus before
    running,     \* bool running of main
    ppm_file,    \* struct PPMFile* ppm_file of main: NULL or a heap index
    heap,        \* every struct PPMFile ever allocated, with its free count
    window,      \* the SDL window: its title and size as last set
    renderer,    \* the SDL renderer: draw colour, back buffer, screen
    queue,       \* the SDL event queue
    posted,      \* events posted so far
    ev,          \* history: the event the last handler was run for
    dec,         \* history: the calls of ppm_read_file of the last handler
    log,         \* history: the operations of the last handler, in order
    nRender,     \* history: calls of sdl_render_once so far
    nPresent     \* history: calls of SDL_RenderPresent so far

vars == <<pc, exit_status, running, ppm_file, heap, window, renderer, queue,
          posted, ev, dec, log, nRender, nPresent>>

NULL == 0
NoStatus == -1
EXIT_SUCCESS == 0
EXIT_FAILURE == 1
DefaultSize == 500

Paths == {"a.ppm", "b.ppm"}

\* what main is started with: argv[0] and at most one path
Argvs == {<<"imgv">>} \cup {<<"imgv", p>> : p \in Paths}

Events ==
    {[type |-> "SDL_QUIT", sym |-> "", file |-> ""],
     [type |-> "SDL_KEYDOWN", sym |-> "SDLK_ESCAPE", file |-> ""],
     [type |-> "SDL_KEYDOWN", sym |-> "SDLK_q", file |-> ""],
     [type |-> "SDL_KEYDOWN", sym |-> "SDLK_a", file |-> ""],
     [type |-> "SDL_MOUSEMOTION", sym |-> "", file |-> ""]}
    \cup {[type |-> "SDL_DROPFILE", sym |-> "", file |-> p] : p \in Paths}

\* what the SDL calls of one handler return: the name of the call that
\* fails (the process exits at the first that does), or "none"; with
\* "pitch" none fails and SDL_LockTexture reports rows that are longer
\* than width * 4 bytes
DrawOutcomes == {"none", "pitch", "SDL_CreateTexture", "SDL_LockTexture"}

\* the bytes by which a row of a locked texture can be longer than its
\* pixels
RowPad == 4
StartOutcomes == DrawOutcomes \cup
                 {"SDL_Init", "SDL_CreateWindow", "SDL_CreateRenderer"}

(***************************************************************************)
(* A handler works on a record of the state it can change (World) and the  *)
(* result becomes the next state (Commit).  After exit() or a trap the     *)
(* process executes nothing more: every operation leaves a halted world    *)
(* as it is.                                                               *)
(***************************************************************************)
World ==
    [ppm_file |-> ppm_file, heap |-> heap, window |-> window,
     renderer |-> renderer, dec |-> <<>>, log |-> <<>>,
     nRender |-> nRender, nPresent |-> nPresent,
     status |-> NoStatus, killed |-> FALSE]

Halted(w) == w.status # NoStatus \/ w.killed

Log(w, op, img, n) ==
    IF Halted(w) THEN w
    ELSE [w EXCEPT !.log = Append(@, [op |-> op, img |-> img, n |-> n])]

\* exit(status)
Exit(w, status) ==
    IF Halted(w) THEN w
    ELSE [Log(w, "exit", NULL, status) EXCEPT !.status = status]

Live(h, id) == id \in 1..Len(h) /\ h[id].frees = 0

(***************************************************************************)
(* The image resource.                                                     *)
(***************************************************************************)
\* the pointer a call of ppm_read_file that had result r returned, when
\* the heap was h
Returned(h, r) == IF r.img # <<>> THEN Len(h) + 1 ELSE NULL

\* a call of ppm_read_file(path) on the file d describes, with result r:
\* the struct it allocated is a new heap entry.  ret is the pointer returned.
Decoded(w, path, d, via, r) ==
    IF Halted(w) THEN [w |-> w, ret |-> NULL]
    ELSE [w |-> [Log(w, "ppm_read_file", Returned(w.heap, r), 0) EXCEPT
                   !.dec = Append(@, [path |-> path, via |-> via, input |-> d,
                                      result |-> r]),
                   !.heap = IF r.img # <<>>
                            THEN Append(@, [img |-> r.img[1], frees |-> 0])
                            ELSE @,
                   !.killed = (r.kind = "Trap")],
          ret |-> Returned(w.heap, r)]

Decode(w, path, d, env, via) ==
    Decoded(w, path, d, via, ppm_read_file(path, FileOf(d), env))

\* what a freed struct PPMFile holds: nothing that can be relied on
Freed == [path |-> "", magic_number |-> <<>>, width |-> 0, height |-> 0,
          max_color |-> 0, data |-> <<>>]

\* void ppm_destroy(struct PPMFile* file), lines 92-95: free(file->data);
\* free(file)
ppm_destroy(w, file) ==
    IF Halted(w) THEN w
    ELSE [Log(w, "ppm_destroy", file, 0) EXCEPT
            !.heap[file].frees = @ + 1,
            !.heap[file].img = Freed]

\* void ppm_print_details(struct PPMFile* file), lines 97-102
ppm_print_details(w, file) == Log(w, "ppm_print_details", file, 0)

(***************************************************************************)
(* The window and the presenter.                                           *)
(***************************************************************************)
NoPicture == [kind |-> "none", color |-> <<>>, img |-> NULL,
              w |-> 0, h |-> 0, pitch |-> 0, texels |-> <<>>]

SDL_SetWindowTitle(w, title) ==
    IF Halted(w) THEN w
    ELSE [Log(w, "SDL_SetWindowTitle", NULL, 0) EXCEPT !.window.title = title]

SDL_SetWindowSize(w, width, height) ==
    IF Halted(w) THEN w
    ELSE [Log(w, "SDL_SetWindowSize", NULL, 0) EXCEPT
            !.window.w = width, !.window.h = height]

\* SDL_SetRenderDrawColor and SDL_RenderClear, lines 156-157
FillBackBuffer(w, color) ==
    IF Halted(w) THEN w
    ELSE [Log(Log(w, "SDL_SetRenderDrawColor", NULL, 0),
              "SDL_RenderClear", NULL, 0) EXCEPT
            !.renderer.color = color,
            !.renderer.target = [NoPicture EXCEPT !.kind = "fill",
                                                  !.color = color]]

\* the byte count of the memcpy, lines 132-137
CopySize(im) == MulWrap(MulWrap(im.width, im.height), 4)

\* texture_pitch as SDL_LockTexture sets it, lines 119-126: the length of
\* one row of the locked texture in bytes
Pitch(im, sdl) ==
    AddWrap(MulWrap(im.width, 4), IF sdl = "pitch" THEN RowPad ELSE 0)

\* lines 118-154, once the texture is created and locked: memcpy of
\* width * height * 4 bytes of the image to the start of the locked
\* texture (texels: the bytes written, in the order of their addresses),
\* and the copy of the texture to the back buffer at (0, 0)
DrawImage(w, file, sdl) ==
    IF Halted(w) THEN w
    ELSE [Log(Log(Log(Log(w, "memcpy", file, CopySize(w.heap[file].img)),
                  "SDL_UnlockTexture", NULL, 0),
                  "SDL_RenderCopy", file, 0),
                  "SDL_DestroyTexture", NULL, 0)
          EXCEPT !.renderer.target =
                 [kind |-> "image", color |-> <<>>, img |-> file,
                  w |-> w.heap[file].img.width,
                  h |-> w.heap[file].img.height,
                  pitch |-> Pitch(w.heap[file].img, sdl),
                  texels |-> SubSeq(w.heap[file].img.data, 1,
                                    CopySize(w.heap[file].img))]]

\* a variant that presents twice
PresentTwice(w) ==
    IF Halted(w) THEN w
    ELSE [Log(Log(w, "SDL_RenderPresent", NULL, 0),
              "SDL_RenderPresent", NULL, 0) EXCEPT
            !.nPresent = @ + 2,
            !.renderer.screen = w.renderer.target]

\* SDL_RenderPresent, line 160: the back buffer becomes what is shown
Present(w) ==
    IF Halted(w) THEN w
    ELSE [Log(w, "SDL_RenderPresent", NULL, 0) EXCEPT
            !.nPresent = @ + 1,
            !.renderer.screen = w.renderer.target]

\* lines 105-158, entered
Rendering(w0, file, sdl) ==
    IF file # NULL
        THEN IF sdl = "SDL_CreateTexture"
                 THEN Exit(Log(w0, "SDL_CreateTexture", file, 0), EXIT_FAILURE)
             ELSE IF sdl = "SDL_LockTexture"
                 THEN Exit(Log(Log(w0, "SDL_CreateTexture", file, 1),
                               "SDL_LockTexture", file, 0), EXIT_FAILURE)
             ELSE DrawImage(Log(Log(w0, "SDL_CreateTexture", file, 1),
                                "SDL_LockTexture", file, 1), file, sdl)
        ELSE FillBackBuffer(w0, <<0, 0, 255, 255>>)

\* void sdl_render_once(SDL_Renderer*, struct PPMFile*), lines 104-161
sdl_render_once(w, file, sdl) ==
    IF Halted(w) THEN w
    ELSE Present(Rendering([Log(w, "sdl_render_once", file, 0)
                            EXCEPT !.nRender = @ + 1], file, sdl))

\* a variant that draws the first image that was ever constructed
RenderFirst(w, sdl) ==
    sdl_render_once(w, IF w.heap # <<>> THEN 1 ELSE NULL, sdl)

\* sdl_render_once(renderer, ppm_file) as main calls it, lines 231 and 254
RenderActive(w, sdl) == sdl_render_once(w, w.ppm_file, sdl)

(***************************************************************************)
(* The viewer state machine.                                               *)
(***************************************************************************)
\* *ppm_file = new_ppm_file, line 174
Adopt(w, new) ==
    IF Halted(w) THEN w
    ELSE [Log(w, "adopt", new, 0) EXCEPT !.ppm_file = new]

\* a variant that never releases the image that is replaced
KeepOld(w) == w

\* lines 170-172
DestroyOld(w) ==
    IF w.ppm_file # NULL THEN ppm_destroy(w, w.ppm_file) ELSE w

\* a variant that passes height and width in the wrong order
RetitleSwapped(w) ==
    SDL_SetWindowSize(SDL_SetWindowTitle(w, w.heap[w.ppm_file].img.path),
                      w.heap[w.ppm_file].img.height,
                      w.heap[w.ppm_file].img.width)

\* lines 176-179, for the struct that was adopted
Retitle(w) ==
    SDL_SetWindowSize(SDL_SetWindowTitle(w, w.heap[w.ppm_file].img.path),
                      w.heap[w.ppm_file].img.width,
                      w.heap[w.ppm_file].img.height)

\* a variant that releases the active image before it looks at what
\* ppm_read_file returned
UpdatedEagerly(r) ==
    IF Halted(r.w) THEN [w |-> r.w, ret |-> FALSE]
    ELSE IF r.ret = NULL
        THEN [w |-> [DestroyOld(r.w) EXCEPT !.ppm_file = NULL], ret |-> FALSE]
    ELSE [w |-> ppm_print_details(Retitle(Adopt(DestroyOld(r.w), r.ret)),
                                  r.ret),
          ret |-> TRUE]

\* lines 166-181: r is the world after ppm_read_file and what it returned
Updated(r) ==
    IF Halted(r.w) \/ r.ret = NULL
        THEN [w |-> r.w, ret |-> FALSE]
        ELSE [w |-> ppm_print_details(Retitle(Adopt(DestroyOld(r.w), r.ret)),
                                      r.ret),
              ret |-> TRUE]

\* bool update_state(const char* new_image_path, struct PPMFile** ppm_file,
\* SDL_Window* window), lines 163-182
update_state(w, new_image_path, d, env) ==
    Updated(Decode(w, new_image_path, d, env, "drop"))

(***************************************************************************)
(* The files the viewer is given: at start (argv[1]) and by file drops.    *)
(***************************************************************************)
P3 == <<"P", "3">>

Intact(tag, width, height, pix) ==
    [open |-> TRUE, tag |-> tag, width |-> width, height |-> height,
     max |-> 255, pix |-> pix, keep |-> 4 + 3 * Len(pix), junk |-> 0]

\* width * height and that times 4 fit an int
Fits(d) ==
    /\ ~MulOverflows(d.width, d.height)
    /\ ~MulOverflows(MulWrap(d.width, d.height), 4)

\* a file with the environment it is decoded in: what undefined behaviour
\* does is a choice only where the decoder runs into it
Cases(inputs) ==
    {c \in inputs \X Envs : c[2].ub = "wrap" \/ ~Fits(c[1])}

\* the 2x1 image of a red and a green pixel
RedGreen == Intact(P3, 2, 1, <<(<<255, 0, 0>>), (<<0, 255, 0>>)>>)

ViewerInputs ==
    {Intact(P3, 1, 2, <<(<<1, 2, 3>>), (<<4, 5, 6>>)>>),
     RedGreen,
     [RedGreen EXCEPT !.open = FALSE],
     [RedGreen EXCEPT !.tag = <<"P", "6">>],
     [RedGreen EXCEPT !.junk = 2],
     [RedGreen EXCEPT !.keep = 3],
     [RedGreen EXCEPT !.keep = 7],
     Intact(P3, 0, 0, <<>>),
     Intact(P3, 65536, 65536, <<>>)}

(***************************************************************************)
(* main, lines 184-272.                                                    *)
(***************************************************************************)
Init ==
    /\ pc = "start"
    /\ exit_status = NoStatus
    /\ running = TRUE
    /\ ppm_file = NULL
    /\ heap = <<>>
    /\ window = [open |-> FALSE, title |-> "", w |-> 0, h |-> 0]
    /\ renderer = [made |-> FALSE, color |-> <<0, 0, 0, 255>>,
                   target |-> NoPicture, screen |-> NoPicture]
    /\ queue = <<>>
    /\ posted = 0
    /\ ev = <<>>
    /\ dec = <<>>
    /\ log = <<>>
    /\ nRender = 0
    /\ nPresent = 0

\* the state a handler leaves; next is where main goes on unless the
\* process ended
Commit(w, next) ==
    /\ pc' = IF w.killed THEN "killed"
             ELSE IF w.status # NoStatus THEN "exited"
             ELSE next
    /\ exit_status' = w.status
    /\ ppm_file' = w.ppm_file
    /\ heap' = w.heap
    /\ window' = w.window
    /\ renderer' = w.renderer
    /\ dec' = w.dec
    /\ log' = w.log
    /\ nRender' = w.nRender
    /\ nPresent' = w.nPresent

\* a variant that gives up when the image named at start cannot be loaded
StartupLoadedOrExit(r) ==
    IF Halted(r.w) THEN r.w
    ELSE IF r.ret # NULL
        THEN ppm_print_details([r.w EXCEPT !.ppm_file = r.ret], r.ret)
    ELSE Exit(r.w, EXIT_FAILURE)

\* lines 188-192: r is the world after ppm_read_file and what it returned
StartupLoaded(r) ==
    IF Halted(r.w) THEN r.w
    ELSE IF r.ret # NULL
        THEN ppm_print_details([r.w EXCEPT !.ppm_file = r.ret], r.ret)
    ELSE r.w

\* lines 185-193: the startup load
StartupLoad(w, argv, d, env) ==
    IF Len(argv) > 1 THEN StartupLoaded(Decode(w, argv[2], d, env, "argv"))
    ELSE w

\* lines 196-199
InitSDL(w, sdl) ==
    IF sdl = "SDL_Init" THEN Exit(Log(w, "SDL_Init", NULL, 0), EXIT_FAILURE)
    ELSE Log(w, "SDL_Init", NULL, 1)

\* lines 201-216: the window takes the title and size of the image loaded
\* at start, or the defaults
CreateWindow(w, sdl) ==
    IF Halted(w) THEN w
    ELSE IF sdl = "SDL_CreateWindow"
        THEN Exit(Log(w, "SDL_CreateWindow", NULL, 0), EXIT_FAILURE)
    ELSE [Log(w, "SDL_CreateWindow", NULL, 1) EXCEPT
            !.window =
                IF w.ppm_file # NULL
                    THEN [open |-> TRUE,
                          title |-> w.heap[w.ppm_file].img.path,
                          w |-> w.heap[w.ppm_file].img.width,
                          h |-> w.heap[w.ppm_file].img.height]
                    ELSE [open |-> TRUE, title |-> "imgv",
                          w |-> DefaultSize, h |-> DefaultSize]]

\* lines 220-229
CreateRenderer(w, sdl) ==
    IF Halted(w) THEN w
    ELSE IF sdl = "SDL_CreateRenderer"
        THEN Exit(Log(w, "SDL_CreateRenderer", NULL, 0), EXIT_FAILURE)
    ELSE [Log(w, "SDL_CreateRenderer", NULL, 1) EXCEPT !.renderer.made = TRUE]

\* lines 196-234: main from SDL_Init up to the event loop
Main(w, sdl) ==
    RenderActive(CreateRenderer(CreateWindow(InitSDL(w, sdl), sdl), sdl), sdl)

Startup ==
    /\ pc = "start"
    /\ \E argv \in Argvs, c \in Cases(ViewerInputs) :
          \E w \in {StartupLoad(World, argv, c[1], c[2])} :
             \E sdl \in StartOutcomes : Commit(Main(w, sdl), "loop")
    /\ running' = TRUE
    /\ UNCHANGED <<queue, posted, ev>>

\* the event source: the user closes the window, presses a key, drops a
\* file, moves the mouse
PostEvent ==
    /\ pc = "loop"
    /\ posted < MaxEvents
    /\ Len(queue) < MaxQueue
    /\ \E e \in Events : queue' = Append(queue, e)
    /\ posted' = posted + 1
    /\ UNCHANGED <<pc, exit_status, running, ppm_file, heap, window, renderer,
                   ev, dec, log, nRender, nPresent>>

\* SDL_PollEvent returned 1 with an event of this type (line 239)
Polled(type) ==
    /\ pc = "loop"
    /\ queue # <<>>
    /\ Head(queue).type = type
    /\ queue' = Tail(queue)
    /\ ev' = <<Head(queue)>>
    /\ posted' = posted

\* case SDL_QUIT, lines 241-243
HandleQuit ==
    /\ Polled("SDL_QUIT")
    /\ running' = FALSE
    /\ Commit(World, "loop")

\* the keys that cancel, line 246
IsCancelKey(sym) == sym = "SDLK_ESCAPE" \/ sym = "SDLK_q"

\* case SDL_KEYDOWN, lines 245-250
HandleKeyDown ==
    /\ Polled("SDL_KEYDOWN")
    /\ running' = IF IsCancelKey(Head(queue).sym) THEN FALSE ELSE running
    /\ Commit(World, "loop")

\* a variant that releases the dropped path only after a load that failed
StateUpdatedFreeOnFailure(u, sdl) ==
    IF u.ret THEN RenderActive(u.w, sdl) ELSE Log(u.w, "SDL_free", NULL, 0)

\* a variant that draws whatever update_state returned
StateUpdatedAlways(u, sdl) ==
    Log(RenderActive(u.w, sdl), "SDL_free", NULL, 0)

\* lines 253-257, u being what update_state returned
StateUpdated(u, sdl) ==
    Log(IF u.ret THEN RenderActive(u.w, sdl) ELSE u.w, "SDL_free", NULL, 0)

\* case SDL_DROPFILE, lines 252-258
HandleDropFile ==
    /\ Polled("SDL_DROPFILE")
    /\ \E c \in Cases(ViewerInputs) :
          \E u \in {update_state(World, Head(queue).file, c[1], c[2])} :
             \E sdl \in DrawOutcomes : Commit(StateUpdated(u, sdl), "loop")
    /\ running' = running

\* default, lines 260-261
HandleOther ==
    /\ pc = "loop"
    /\ queue # <<>>
    /\ Head(queue).type \notin {"SDL_QUIT", "SDL_KEYDOWN", "SDL_DROPFILE"}
    /\ queue' = Tail(queue)
    /\ ev' = <<Head(queue)>>
    /\ posted' = posted
    /\ running' = running
    /\ Commit(World, "loop")

\* SDL_PollEvent returned 0 and running is false: lines 266-271
LoopExit ==
    /\ pc = "loop"
    /\ queue = <<>>
    /\ running = FALSE
    /\ pc' = "exited"
    /\ exit_status' = EXIT_SUCCESS
    /\ UNCHANGED <<running, ppm_file, heap, window, renderer, queue, posted,
                   ev, dec, log, nRender, nPresent>>

Next ==
    \/ Startup
    \/ PostEvent
    \/ HandleQuit
    \/ HandleKeyDown
    \/ HandleDropFile
    \/ HandleOther
    \/ LoopExit

Spec == Init /\ [][Next]_vars

(***************************************************************************)
(* The decoder on its own: ppm_read_file applied to every file of          *)
(* DecoderInputs under every environment.                                  *)
(***************************************************************************)
Tags == {P3, <<"P", "6">>, <<"P">>, <<"p", "3">>}

\* the triplet pixel i of a test image holds
Pattern(i) == <<(i * 16 + 1) % 256, (254 - i) % 256, (i * 3 + 128) % 256>>

PatternPix(n) == [k \in 1..n |-> Pattern(k - 1)]

\* the number of pixels a header of small dimensions declares
Declared(width, height) == IF width * height > 0 THEN width * height ELSE 0

SmallDims == (-1)..MaxDim

\* the sample values tried in every channel of every pixel
SampleVals == {0, 1, 127, 128, 255}

\* files that are whole, or cut short, or hold one word that is no number
DefectiveFiles ==
    UNION {
        LET whole == Intact(tag, width, height,
                            PatternPix(Declared(width, height)))
        IN  {[whole EXCEPT !.keep = k] : k \in 0..whole.keep}
            \cup {[whole EXCEPT !.junk = j] : j \in 1..whole.keep}
        : tag \in Tags, width \in SmallDims, height \in SmallDims}

\* whole files in which one pixel holds a chosen triplet
ProbeFiles ==
    UNION {
        {Intact(P3, width, height,
                [PatternPix(width * height) EXCEPT ![i] = <<r, g, b>>])
            : i \in 1..(width * height),
              r \in SampleVals, g \in SampleVals, b \in SampleVals}
        : width \in 1..MaxDim, height \in 1..MaxDim}

\* files whose width * height, or that times 4, does not fit an int
OverflowFiles ==
    {Intact(P3, 65536, 65536, <<>>),
     Intact(P3, 65537, -65535, PatternPix(1)),
     Intact(P3, 1073741824, 1, PatternPix(1))}

DecoderInputs ==
    DefectiveFiles \cup ProbeFiles \cup OverflowFiles
    \cup {[RedGreen EXCEPT !.open = FALSE], RedGreen}

DecodeFile ==
    /\ pc = "start"
    /\ \E c \in Cases(DecoderInputs), p \in Paths :
          dec' = <<[path |-> p, via |-> "argv", input |-> c[1], env |-> c[2],
                    result |-> ppm_read_file(p, FileOf(c[1]), c[2])]>>
    /\ pc' = "decoded"
    /\ UNCHANGED <<exit_status, running, ppm_file, heap, window, renderer,
                   queue, posted, ev, log, nRender, nPresent>>

DecoderSpec == Init /\ [][DecodeFile]_vars

(***************************************************************************)
(* Properties of the viewer (Spec).                                        *)
(***************************************************************************)
\* the returns of ppm_read_file that give NULL
FailureKinds == {"OpenError", "FormatError", "DimensionError",
                 "MaxColorError", "AllocationError", "PixelDataError"}

\* the places of the operation op in the log l
Ops(l, op) == {i \in 1..Len(l) : l[i].op = op}

\* this step is the handler of a file drop
DropHandled ==
    /\ pc = "loop"
    /\ queue # <<>>
    /\ Head(queue).type = "SDL_DROPFILE"
    /\ queue' = Tail(queue)

\* the last handler was the one of a file drop
AfterDrop == ev # <<>> /\ ev[1].type = "SDL_DROPFILE" /\ dec # <<>>

\* C1: a file drop whose decode fails, whatever the failure and whether or
\* not an image is active, leaves the active image and its contents, the
\* window size and title and what is shown as they were, and runs no
\* draw and no present; the viewer goes on.
C1_FailedDropChangesNothing ==
    [][(DropHandled /\ dec' # <<>> /\ dec'[1].result.kind \in FailureKinds)
          => /\ ppm_file' = ppm_file
             /\ heap' = heap
             /\ window' = window
             /\ renderer' = renderer
             /\ nRender' = nRender
             /\ nPresent' = nPresent
             /\ pc' = "loop"
             /\ \A i \in 1..Len(log') :
                   log'[i].op \in {"ppm_read_file", "SDL_free"}]_vars

\* a drop of a file with short pixel data was handled while an image was
\* active
C1_Witness ==
    /\ AfterDrop
    /\ pc = "loop"
    /\ dec[1].result.kind = "PixelDataError"
    /\ ppm_file # NULL
    /\ Live(heap, ppm_file)
    /\ nRender = 1

\* C2 (as stated): the image that is replaced is released only after the
\* new one is adopted as the active image.
C2_ReleasedAfterAdoption ==
    \A i \in Ops(log, "ppm_destroy") :
        \E j \in Ops(log, "adopt") : j < i /\ log[j].img # log[i].img

\* C2: after a successful load exactly the new image is active; every
\* image that was replaced has been released exactly once and the active
\* one never; a release happens only once the new image is decoded and
\* constructed, and directly before the new image is adopted, so between
\* two events the active pointer never designates a released image.
C2_ReleasedOnceBeforeAdoption ==
    /\ \A id \in 1..Len(heap) :
          heap[id].frees = (IF id = ppm_file THEN 0 ELSE 1)
    /\ ppm_file = NULL \/ Live(heap, ppm_file)
    /\ \A i \in Ops(log, "ppm_destroy") :
          /\ i > 1
          /\ log[i - 1].op = "ppm_read_file"
          /\ log[i - 1].img # NULL
          /\ i < Len(log)
          /\ log[i + 1].op = "adopt"
          /\ log[i + 1].img = log[i - 1].img
          /\ log[i].img # log[i + 1].img
    /\ \A i \in Ops(log, "adopt") : ppm_file = log[i].img
    /\ (AfterDrop /\ dec[1].result.kind = "Ok")
          => /\ ppm_file = Len(heap)
             /\ heap[ppm_file].img = dec[1].result.img[1]

\* image B was loaded while image A was active
C2_Witness ==
    /\ AfterDrop
    /\ pc = "loop"
    /\ Len(heap) = 2
    /\ heap[1].frees = 1
    /\ ppm_file = 2
    /\ Ops(log, "ppm_destroy") # {}

\* C3 (as stated): once a quit event or a cancel key is handled, the
\* process ends by leaving the event loop, with exit status 0.
C3_QuitExitsWithSuccess ==
    (running = FALSE /\ pc = "exited") => exit_status = EXIT_SUCCESS

\* C4 (as stated): when the process has left the event loop and returned
\* from main, every image ever constructed has been released exactly once.
C4_AllReleasedAtExit ==
    (pc = "exited" /\ exit_status = EXIT_SUCCESS)
        => \A id \in 1..Len(heap) : heap[id].frees = 1

\* C8 (as stated): a decode that fails on short pixel data reports the
\* index of the first pixel that is missing, the number of complete
\* triplets read.
C8_IndexReported ==
    \A k \in 1..Len(dec) :
        dec[k].result.kind = "PixelDataError"
            => /\ Len(dec[k].result.diag) = 2
               /\ dec[k].result.diag[2] = (dec[k].input.keep - 4) \div 3

\* the back buffer or the screen filled with opaque blue
BlueFill == [NoPicture EXCEPT !.kind = "fill", !.color = <<0, 0, 255, 255>>]

\* the last handler ended in the exit(EXIT_FAILURE) of sdl_render_once
RenderExited ==
    /\ pc = "exited"
    /\ Len(log) > 1
    /\ log[Len(log)].op = "exit"
    /\ log[Len(log) - 1].op \in {"SDL_CreateTexture", "SDL_LockTexture"}

\* C9 (as stated): every call of sdl_render_once presents exactly once.
C9_OnePresentPerInvocation == nPresent = nRender

\* C9: every call of sdl_render_once that returns presents exactly once,
\* and a call that ends the process (texture creation or lock failed)
\* presents nothing; a call without an image sets the draw colour to
\* (0, 0, 255, 255), clears, presents once, reads no image and returns.
C9_OnePresentPerReturn ==
    /\ nPresent = nRender - (IF RenderExited THEN 1 ELSE 0)
    /\ Cardinality(Ops(log, "SDL_RenderPresent"))
          = Cardinality(Ops(log, "sdl_render_once"))
            - (IF RenderExited THEN 1 ELSE 0)
    /\ \A i \in Ops(log, "sdl_render_once") :
          log[i].img = NULL
              => /\ Len(log) = i + 3
                 /\ log[i + 1].op = "SDL_SetRenderDrawColor"
                 /\ log[i + 2].op = "SDL_RenderClear"
                 /\ log[i + 3].op = "SDL_RenderPresent"
                 /\ renderer.color = <<0, 0, 255, 255>>
                 /\ renderer.screen = BlueFill
                 /\ pc = "loop"

\* the draw at start, without an image, has returned
C9_Witness ==
    /\ pc = "loop"
    /\ ppm_file = NULL
    /\ nRender = 1
    /\ nPresent = 1
    /\ Ops(log, "sdl_render_once") # {}
    /\ renderer.screen = BlueFill

\* the last handler ended in the exit(EXIT_FAILURE) after an SDL call of
\* main or of sdl_render_once failed
SDLFailed ==
    /\ exit_status = EXIT_FAILURE
    /\ Len(log) > 1
    /\ log[Len(log)].op = "exit"
    /\ log[Len(log) - 1].op \in StartOutcomes
    /\ log[Len(log) - 1].n = 0

\* C10: with a path given at start, a decode that fails does not end the
\* process (only a failing SDL call does): main reaches the event loop
\* without an image, with the window created 500 x 500 and titled "imgv"
\* and the blue fill drawn and presented once; a decode that succeeds
\* makes that image active, with the window created at its width and
\* height and titled with its path, and the image drawn.
C10_StartupLoad ==
    (ev = <<>> /\ pc # "start" /\ dec # <<>>)
        => /\ dec[1].via = "argv"
           /\ pc = "exited" => SDLFailed
           /\ (dec[1].result.kind \in FailureKinds /\ pc = "loop")
                 => /\ ppm_file = NULL
                    /\ heap = <<>>
                    /\ window = [open |-> TRUE, title |-> "imgv",
                                 w |-> 500, h |-> 500]
                    /\ renderer.screen = BlueFill
                    /\ nRender = 1
                    /\ nPresent = 1
           /\ dec[1].result.kind \in FailureKinds => pc \in {"loop", "exited"}
           /\ (dec[1].result.kind = "Ok" /\ pc = "loop")
                 => /\ ppm_file = 1
                    /\ heap = <<[img |-> dec[1].result.img[1], frees |-> 0]>>
                    /\ window = [open |-> TRUE, title |-> dec[1].path,
                                 w |-> dec[1].input.width,
                                 h |-> dec[1].input.height]
                    /\ renderer.screen.kind = "image"
                    /\ renderer.screen.img = 1
                    /\ nRender = 1
                    /\ nPresent = 1

\* main reached the event loop after the decode of the startup path failed
C10_Witness ==
    /\ ev = <<>>
    /\ pc = "loop"
    /\ dec # <<>>
    /\ dec[1].result.kind = "FormatError"
    /\ window.title = "imgv"
    /\ renderer.screen = BlueFill

(***************************************************************************)
(* Properties of the decoder (DecoderSpec).                                *)
(***************************************************************************)
\* n = width * height * 4, the product of the integers (computed by
\* division, so that no intermediate value leaves the range of an int)
IsProductTimes4(n, width, height) ==
    IF width = 0 \/ height = 0 THEN n = 0
    ELSE /\ (width > 0) = (height > 0)
         /\ n % 4 = 0
         /\ (n \div 4) % Abs(width) = 0
         /\ (n \div 4) \div Abs(width) = Abs(height)

\* C5 (as stated): every image the decoder constructs has a pixel array of
\* exactly width * height * 4 bytes, every byte of it written, no store
\* outside it, and 255 in the first byte of every pixel.
C5_BufferFullyWritten ==
    \A k \in 1..Len(dec) :
        dec[k].result.img # <<>>
            => /\ IsProductTimes4(Len(dec[k].result.img[1].data),
                                  dec[k].result.img[1].width,
                                  dec[k].result.img[1].height)
               /\ ~dec[k].result.corrupt
               /\ \A j \in 1..Len(dec[k].result.img[1].data) :
                     /\ dec[k].result.img[1].data[j] # Uninit
                     /\ j % 4 = 1 => dec[k].result.img[1].data[j] = 255

\* the four bytes of pixel i of a pixel array
Cell(data, i) == SubSeq(data, 4 * i + 1, 4 * i + 4)

\* the inverse of the packing: the triplet <<r, g, b>> of a cell
Unpack(cell) == <<cell[4], cell[3], cell[2]>>

Bad(d, k) == k > d.keep \/ k > 4 + 3 * Len(d.pix) \/ k = d.junk

\* what the file d describes violates first, in the order open, format
\* tag, dimensions, max intensity, allocation of the pixel array, pixel
\* data, allocation of the struct; "Ok" when nothing
FirstViolated(d, env) ==
    IF ~d.open THEN "OpenError"
    ELSE IF Bad(d, 1) \/ d.tag # <<"P", "3">> THEN "FormatError"
    ELSE IF Bad(d, 2) \/ Bad(d, 3) THEN "DimensionError"
    ELSE IF Bad(d, 4) THEN "MaxColorError"
    ELSE IF d.width * d.height * 4 < 0 \/ env.nomem = "data"
        THEN "AllocationError"
    ELSE IF \E k \in 5..(4 + 3 * d.width * d.height) : Bad(d, k)
        THEN "PixelDataError"
    ELSE IF env.nomem = "struct" THEN "AllocationError"
    ELSE "Ok"

OpsFrom(l, i, n) ==
    [k \in 1..(IF Len(l) - i + 1 < n THEN Len(l) - i + 1 ELSE n)
        |-> l[i + k - 1].op]

\* the last handler was a file drop whose decode gave an image
DropSucceeded == AfterDrop /\ dec[1].result.kind = "Ok"

\* C11: a successful load runs, in this order, the release of the old
\* image (if there is one), the adoption of the new one, the retitling of
\* the window to its path, the resizing to its width and height, and then
\* one draw of it; so whenever an image is active between events the
\* window has the width, height and path of that image.
C11_LoadOrderAndWindow ==
    /\ DropSucceeded
          => /\ log[1].op = "ppm_read_file"
             /\ log[1].img = ppm_file
             /\ \/ OpsFrom(log, 2, 5)
                      = <<"adopt", "SDL_SetWindowTitle", "SDL_SetWindowSize",
                          "ppm_print_details", "sdl_render_once">>
                \/ OpsFrom(log, 2, 6)
                      = <<"ppm_destroy", "adopt", "SDL_SetWindowTitle",
                          "SDL_SetWindowSize", "ppm_print_details",
                          "sdl_render_once">>
             /\ Cardinality(Ops(log, "sdl_render_once")) = 1
             /\ \A i \in Ops(log, "sdl_render_once") : log[i].img = ppm_file
    /\ (pc = "loop" /\ ppm_file # NULL)
          => /\ window.w = heap[ppm_file].img.width
             /\ window.h = heap[ppm_file].img.height
             /\ window.title = heap[ppm_file].img.path
             /\ renderer.screen.kind = "image"
             /\ renderer.screen.img = ppm_file

\* the 2x1 image of b.ppm replaced the image of a.ppm
C11_Witness ==
    /\ DropSucceeded
    /\ pc = "loop"
    /\ ppm_file = 2
    /\ dec[1].path = "b.ppm"
    /\ heap[1].frees = 1
    /\ window = [open |-> TRUE, title |-> "b.ppm", w |-> 2, h |-> 1]

\* the images constructed and not released
LiveImages == {id \in 1..Len(heap) : heap[id].frees = 0}

\* C12: at most one image is active: the only image not released is the
\* one ppm_file points to; every draw is given the active image, reads
\* (memcpy) the pixel array of that image only, which was constructed and
\* is not released before or during the draw, and destroys its texture
\* before it returns, so that what is shown is a copy of the active image.
C12_DrawReadsActiveLiveImage ==
    /\ Cardinality(LiveImages) <= 1
    /\ LiveImages = (IF ppm_file = NULL THEN {} ELSE {ppm_file})
    /\ \A i \in Ops(log, "sdl_render_once") :
          /\ log[i].img = ppm_file
          /\ \A k \in Ops(log, "ppm_destroy") : k < i /\ log[k].img # log[i].img
    /\ \A j \in Ops(log, "memcpy") :
          /\ log[j].img = ppm_file
          /\ Live(heap, log[j].img)
          /\ OpsFrom(log, j, 5)
                = <<"memcpy", "SDL_UnlockTexture", "SDL_RenderCopy",
                    "SDL_DestroyTexture", "SDL_RenderPresent">>
    /\ (pc = "loop" /\ renderer.screen.kind = "image")
          => /\ renderer.screen.img = ppm_file
             /\ renderer.screen.texels
                   = SubSeq(heap[ppm_file].img.data, 1,
                            Len(renderer.screen.texels))

\* the second image constructed was drawn after the first was released
C12_Witness ==
    /\ pc = "loop"
    /\ ppm_file = 2
    /\ heap[1].frees = 1
    /\ \E j \in Ops(log, "memcpy") : log[j].img = 2
    /\ renderer.screen.img = 2
    /\ renderer.screen.texels = heap[2].img.data
    /\ Len(renderer.screen.texels) = 8

(***************************************************************************)
(* Further properties of the decoder (DecoderSpec).                        *)
(***************************************************************************)
\* C13 (as stated): every image the decoder constructs has a width and a
\* height greater than 0.
C13_PositiveDimensions ==
    \A k \in 1..Len(dec) :
        dec[k].result.img # <<>>
            => /\ dec[k].result.img[1].width > 0
               /\ dec[k].result.img[1].height > 0

\* the four tokens of the header of the file d describes are there and
\* the file can be opened
HeaderIntact(d) ==
    /\ d.open
    /\ d.tag = <<"P", "3">>
    /\ \A k \in 1..4 : ~Bad(d, k)

\* C14 (as stated): when width * height or width * height * 4 does not
\* fit an int, the decoder fails with DimensionError rather than
\* allocating a pixel array of a wrapped size and storing pixels; no
\* store lands outside the pixel array.
C14_OverflowRejected ==
    \A k \in 1..Len(dec) :
        /\ (HeaderIntact(dec[k].input) /\ ~Fits(dec[k].input))
              => /\ dec[k].result.kind = "DimensionError"
                 /\ dec[k].result.img = <<>>
        /\ ~dec[k].result.corrupt

(***************************************************************************)
(* Properties of the steps of the viewer (Spec).                           *)
(***************************************************************************)
\* this step is the handler of the event at the head of the queue
EventHandled == pc = "loop" /\ queue # <<>> /\ queue' = Tail(queue)

\* C15: every step decodes and draws as often as its request asks: main
\* up to the loop decodes at most once (the path of argv) and draws once,
\* if it gets as far as the renderer; the handler of a file drop decodes
\* the dropped path once and draws once if that gave an image, not
\* otherwise; the handlers of quit, of keys and of other events, the
\* arrival of an event and the exit of the loop decode and draw nothing.
C15_DecodeAndDrawPerRequest ==
    [][/\ pc = "start"
            => /\ Len(dec') <= 1
               /\ \A k \in 1..Len(dec') : dec'[k].via = "argv"
               /\ Cardinality(Ops(log', "ppm_read_file")) = Len(dec')
               /\ nRender' = (IF renderer'.made THEN 1 ELSE 0)
               /\ Cardinality(Ops(log', "sdl_render_once")) = nRender'
       /\ (EventHandled /\ Head(queue).type = "SDL_DROPFILE")
            => /\ Len(dec') = 1
               /\ dec'[1].via = "drop"
               /\ dec'[1].path = Head(queue).file
               /\ Cardinality(Ops(log', "ppm_read_file")) = 1
               /\ nRender' = nRender
                               + (IF dec'[1].result.kind = "Ok" THEN 1 ELSE 0)
               /\ Cardinality(Ops(log', "sdl_render_once"))
                     = nRender' - nRender
       /\ (EventHandled /\ Head(queue).type # "SDL_DROPFILE")
            => /\ dec' = <<>>
               /\ log' = <<>>
               /\ nRender' = nRender
               /\ nPresent' = nPresent
               /\ renderer' = renderer
       /\ (pc = "loop" /\ ~EventHandled)
            => UNCHANGED <<dec, log, nRender, nPresent, renderer>>]_vars

\* a key that does not cancel was handled after an image was loaded at
\* start and another by a file drop: two decodes and two draws so far
C15_Witness ==
    /\ pc = "loop"
    /\ ev # <<>>
    /\ ev[1].type = "SDL_KEYDOWN"
    /\ running
    /\ dec = <<>>
    /\ Len(heap) = 2
    /\ nRender = 2
    /\ nPresent = 2

(***************************************************************************)
(* What a draw puts into the texture (Spec).                               *)
(***************************************************************************)
\* the four bytes of the pixel at column x, row y of the texture of
\* picture pic: they start pic.pitch * y + 4 * x bytes into the locked
\* region; bytes the memcpy did not reach hold nothing of the image
TexturePixel(pic, x, y) ==
    [k \in 1..4 |->
        IF pic.pitch * y + 4 * x + k <= Len(pic.texels)
            THEN pic.texels[pic.pitch * y + 4 * x + k]
            ELSE Uninit]

\* the images small enough to be looked at pixel by pixel
Small(im) ==
    /\ im.width \in 1..(MaxDim + 1)
    /\ im.height \in 1..(MaxDim + 1)

\* C16 (as stated): a draw of the active image of width w and height h
\* copies w * h * 4 bytes in one memcpy, nothing outside the locked
\* region of h rows of pitch bytes, and, whatever pitch >= 4 * w the lock
\* reported, the texture's pixel at column x, row y holds the four bytes
\* of the image's pixel y * w + x.
C16_TextureHoldsImage ==
    (renderer.screen.kind = "image" /\ Live(heap, renderer.screen.img)
        /\ Small(heap[renderer.screen.img].img))
        => /\ Len(renderer.screen.texels)
                 = renderer.screen.w * renderer.screen.h * 4
           /\ renderer.screen.pitch >= 4 * renderer.screen.w
           /\ Len(renderer.screen.texels)
                 <= renderer.screen.h * renderer.screen.pitch
           /\ \A x \in 0..(renderer.screen.w - 1),
                 y \in 0..(renderer.screen.h - 1) :
                 TexturePixel(renderer.screen, x, y)
                    = Cell(heap[renderer.screen.img].img.data,
                           y * renderer.screen.w + x)

(***************************************************************************)
(* Events that follow a quit (Spec).                                       *)
(***************************************************************************)
\* C17 (as stated): once a quit event or a cancel key is handled
\* (running is false) no handler decodes, releases or adopts an image,
\* retitles or resizes the window or draws: the last handler made no call.
C17_NothingAfterQuit ==
    running = FALSE => (dec = <<>> /\ log = <<>>)

(***************************************************************************)
(* What the decoder leaves behind (DecoderSpec).                           *)
(***************************************************************************)
\* C18 (as stated): at every return of the decoder the file it opened is
\* closed, and at every return of NULL no pixel array is left allocated.
C18_NothingLeftBehind ==
    \A k \in 1..Len(dec) :
        dec[k].result.kind # "Trap"
            => /\ ~dec[k].result.fileOpen
               /\ dec[k].result.img = <<>> => ~dec[k].result.dataLeft

(***************************************************************************)
(* The path string of an image (Spec).  The struct keeps the pointer it    *)
(* was given (line 83): argv[1], or event.drop.file, which the handler of  *)
(* the drop passes to SDL_free (line 257).                                 *)
(***************************************************************************)
\* the places in the log l of the calls that read the path of an image
PathReads(l) ==
    {i \in 1..Len(l) : l[i].op \in {"SDL_SetWindowTitle", "ppm_print_details"}}

\* C19: the path kept in an image is read (for the window title and the
\* printout) only in the handler of the load that constructed the image,
\* and there before the dropped path is released; the handler of a file
\* drop that returns releases the dropped path exactly once, as the last
\* thing it does, whether the load succeeded or failed; no other handler
\* releases or reads anything.
C19_PathReadOnlyDuringLoad ==
    /\ \A i \in PathReads(log) :
          /\ log[1].op = "ppm_read_file"
          /\ log[1].img # NULL
          /\ log[i].op = "ppm_print_details" => log[i].img = log[1].img
          /\ \A j \in Ops(log, "SDL_free") : i < j
    /\ \A j \in Ops(log, "SDL_free") : j = Len(log)
    /\ (AfterDrop /\ pc = "loop")
          => Cardinality(Ops(log, "SDL_free")) = 1
    /\ ~AfterDrop => Ops(log, "SDL_free") = {}
    /\ (ev # <<>> /\ ev[1].type # "SDL_DROPFILE") => log = <<>>

\* a drop that failed was handled while the image of an earlier drop,
\* whose path is released, was active
C19_Witness ==
    /\ AfterDrop
    /\ pc = "loop"
    /\ dec[1].result.kind \in FailureKinds
    /\ OpsFrom(log, 1, 3) = <<"ppm_read_file", "SDL_free">>
    /\ ppm_file # NULL
    /\ posted = 2
    /\ queue = <<>>
    /\ nRender = 2

====
